---------------------------- MODULE Spec2Model ----------------------------
(***************************************************************************)
(* A model of ThinLiquid/mania: the skin descriptor parser                 *)
(* (src/src/parsers/OsuSkinParser.ts) and the note scroll loop of Game     *)
(* (src/src/main.ts).                                                      *)
(*                                                                         *)
(* JavaScript strings are sequences of one-character strings, so that      *)
(* split, trim, startsWith, toLowerCase and parseFloat are computed on the *)
(* characters.  JavaScript numbers are exact rationals [num, den] or NaN;  *)
(* the rounding of IEEE doubles is not modelled.                           *)
(***************************************************************************)
EXTENDS Integers, Sequences, FiniteSets, TLC

(***************************************************************************)
(* JavaScript numbers                                                      *)
(***************************************************************************)
RECURSIVE Gcd(_, _)
Gcd(a, b) == IF b = 0 THEN a ELSE Gcd(b, a % b)

Abs(n) == IF n < 0 THEN -n ELSE n

\* The rational n/d in lowest terms with a positive denominator (d # 0).
Rat(n, d) ==
  LET g == Gcd(Abs(n), Abs(d))
      s == IF d < 0 THEN -1 ELSE 1
  IN  [num |-> (s * n) \div g, den |-> (s * d) \div g]

Int2Num(n) == [num |-> n, den |-> 1]

NaN == [nan |-> TRUE]

undefined == [undef |-> TRUE]

IsNaN(a) == a = NaN

IsNum(a) == DOMAIN a = {"num", "den"}

\* ToNumber of the values the model multiplies: undefined becomes NaN.
ToNumber(a) == IF IsNum(a) THEN a ELSE NaN

NumMul(a, b) ==
  IF IsNaN(a) \/ IsNaN(b) THEN NaN ELSE Rat(a.num * b.num, a.den * b.den)

NumDiv(a, b) ==
  IF IsNaN(a) \/ IsNaN(b) \/ b.num = 0 THEN NaN
  ELSE Rat(a.num * b.den, a.den * b.num)

NumSub(a, b) ==
  IF IsNaN(a) \/ IsNaN(b) THEN NaN
  ELSE Rat(a.num * b.den - b.num * a.den, a.den * b.den)

NumNeg(a) == IF IsNaN(a) THEN NaN ELSE Rat(-a.num, a.den)

\* a < b and a >= b in JavaScript: false when either side is NaN.
NumLt(a, b) == ~IsNaN(a) /\ ~IsNaN(b) /\ a.num * b.den < b.num * a.den

NumGe(a, b) == ~IsNaN(a) /\ ~IsNaN(b) /\ a.num * b.den >= b.num * a.den

\* Math.max and Math.min: NaN when either argument is NaN.
MathMax(a, b) == IF IsNaN(a) \/ IsNaN(b) THEN NaN ELSE IF NumLt(a, b) THEN b ELSE a

MathMin(a, b) == IF IsNaN(a) \/ IsNaN(b) THEN NaN ELSE IF NumLt(b, a) THEN b ELSE a

\* Mutant of clamp: no upper limit.
clamp_NoCeiling(value, min, max) == MathMax(value, min)

clamp(value, min, max) == MathMin(MathMax(value, min), max)

\* !x of a number: true of NaN and of 0.
Falsy(a) == IsNaN(a) \/ a.num = 0

(***************************************************************************)
(* JavaScript strings                                                      *)
(***************************************************************************)
UpperChars ==
  <<"A", "B", "C", "D", "E", "F", "G", "H", "I", "J", "K", "L", "M",
    "N", "O", "P", "Q", "R", "S", "T", "U", "V", "W", "X", "Y", "Z">>

LowerChars ==
  <<"a", "b", "c", "d", "e", "f", "g", "h", "i", "j", "k", "l", "m",
    "n", "o", "p", "q", "r", "s", "t", "u", "v", "w", "x", "y", "z">>

DigitChars == <<"0", "1", "2", "3", "4", "5", "6", "7", "8", "9">>

WhiteSpace == {" ", "\t", "\r", "\n"}

IndexIn(c, chars) ==
  IF \E i \in 1..Len(chars) : chars[i] = c
  THEN CHOOSE i \in 1..Len(chars) : chars[i] = c
  ELSE 0

toLowerCase(s) ==
  [i \in 1..Len(s) |->
     LET k == IndexIn(s[i], UpperChars) IN IF k = 0 THEN s[i] ELSE LowerChars[k]]

trim(s) ==
  LET keep == {i \in 1..Len(s) : s[i] \notin WhiteSpace}
  IN  IF keep = {} THEN <<>>
      ELSE SubSeq(s, CHOOSE i \in keep : \A j \in keep : i <= j,
                     CHOOSE i \in keep : \A j \in keep : i >= j)

startsWith(s, p) == Len(s) >= Len(p) /\ SubSeq(s, 1, Len(p)) = p

endsWith(s, p) == Len(s) >= Len(p) /\ SubSeq(s, Len(s) - Len(p) + 1, Len(s)) = p

includes(s, p) == \E i \in 1..(Len(s) - Len(p) + 1) : SubSeq(s, i, i + Len(p) - 1) = p

\* s.split(c) for a one-character separator: always at least one piece.
RECURSIVE split(_, _)
split(s, c) ==
  LET hits == {i \in 1..Len(s) : s[i] = c}
  IN  IF hits = {} THEN <<s>>
      ELSE LET i == CHOOSE k \in hits : \A j \in hits : k <= j
           IN  <<SubSeq(s, 1, i - 1)>> \o split(SubSeq(s, i + 1, Len(s)), c)

\* The value of the longest prefix of digits of s, read left to right.
RECURSIVE DigitsValue(_, _)
DigitsValue(s, acc) ==
  IF s = <<>> \/ IndexIn(Head(s), DigitChars) = 0 THEN acc
  ELSE DigitsValue(Tail(s), 10 * acc + IndexIn(Head(s), DigitChars) - 1)

\* parseFloat: leading white space is skipped, then an optional sign and the
\* longest prefix of digits are read; NaN when no digit is found there.  The
\* texts of the model hold no '.', no exponent and no "Infinity".
parseFloat(s) ==
  LET keep == {i \in 1..Len(s) : s[i] \notin WhiteSpace}
      t    == IF keep = {} THEN <<>>
              ELSE SubSeq(s, CHOOSE i \in keep : \A j \in keep : i <= j, Len(s))
      neg  == t # <<>> /\ Head(t) = "-"
      u    == IF t # <<>> /\ Head(t) \in {"-", "+"} THEN Tail(t) ELSE t
  IN  IF u = <<>> \/ IndexIn(Head(u), DigitChars) = 0 THEN NaN
      ELSE Int2Num((IF neg THEN -1 ELSE 1) * DigitsValue(u, 0))

(***************************************************************************)
(* The values a configuration tree holds: a string [str], an array of      *)
(* numbers [arr], or a number (a rational, or NaN).  A tree is a function  *)
(* from section names to functions from keys to values.                    *)
(***************************************************************************)
Str(s) == [str |-> s]

Arr(a) == [arr |-> a]

s_Mania == <<"M", "a", "n", "i", "a">>

s_Mania4K == s_Mania \o <<"4", "K">>

s_Keys == <<"K", "e", "y", "s">>

s_ColumnWidth == <<"C", "o", "l", "u", "m", "n", "W", "i", "d", "t", "h">>

s_HitPosition == <<"H", "i", "t", "P", "o", "s", "i", "t", "i", "o", "n">>

s_ColumnStart == <<"C", "o", "l", "u", "m", "n", "S", "t", "a", "r", "t">>

s_Colour == <<"C", "o", "l", "o", "u", "r">>

s_JudgementLine == <<"J", "u", "d", "g", "e", "m", "e", "n", "t", "L", "i", "n", "e">>

s_ColourJudgementLine == s_Colour \o s_JudgementLine

\* The characters of 'mania-' and of the property names of DEFAULT_SKIN.
s_mania == <<"m", "a", "n", "i", "a", "-">>

s_KeyImage == <<"K", "e", "y", "I", "m", "a", "g", "e">>

s_NoteImage == <<"N", "o", "t", "e", "I", "m", "a", "g", "e">>

s_Stage == <<"S", "t", "a", "g", "e">>

DEFAULT_SKIN ==
  LET Mania4K ==
           (s_KeyImage \o <<"0">> :> Str(s_mania \o <<"k", "e", "y", "1">>))
        @@ (s_KeyImage \o <<"1">> :> Str(s_mania \o <<"k", "e", "y", "2">>))
        @@ (s_KeyImage \o <<"2">> :> Str(s_mania \o <<"k", "e", "y", "2">>))
        @@ (s_KeyImage \o <<"3">> :> Str(s_mania \o <<"k", "e", "y", "1">>))
        @@ (s_KeyImage \o <<"0", "D">> :> Str(s_mania \o <<"k", "e", "y", "1", "d">>))
        @@ (s_KeyImage \o <<"1", "D">> :> Str(s_mania \o <<"k", "e", "y", "2", "d">>))
        @@ (s_KeyImage \o <<"2", "D">> :> Str(s_mania \o <<"k", "e", "y", "2", "d">>))
        @@ (s_KeyImage \o <<"3", "D">> :> Str(s_mania \o <<"k", "e", "y", "1", "d">>))
        @@ (s_NoteImage \o <<"0">> :> Str(s_mania \o <<"n", "o", "t", "e", "1">>))
        @@ (s_NoteImage \o <<"1">> :> Str(s_mania \o <<"n", "o", "t", "e", "2">>))
        @@ (s_NoteImage \o <<"2">> :> Str(s_mania \o <<"n", "o", "t", "e", "2">>))
        @@ (s_NoteImage \o <<"3">> :> Str(s_mania \o <<"n", "o", "t", "e", "1">>))
        @@ (s_Stage \o <<"L", "e", "f", "t">> :> Str(s_mania \o <<"s", "t", "a", "g", "e", "-", "l", "e", "f", "t">>))
        @@ (s_Stage \o <<"R", "i", "g", "h", "t">> :> Str(s_mania \o <<"s", "t", "a", "g", "e", "-", "r", "i", "g", "h", "t">>))
        @@ (s_Stage \o <<"B", "o", "t", "t", "o", "m">> :> Str(s_mania \o <<"s", "t", "a", "g", "e", "-", "b", "o", "t", "t", "o", "m">>))
        @@ (s_Stage \o <<"H", "i", "n", "t">> :> Str(s_mania \o <<"s", "t", "a", "g", "e", "-", "h", "i", "n", "t">>))
        @@ (s_ColourJudgementLine :> Arr(<<Int2Num(255), Int2Num(255), Int2Num(255)>>))
        @@ (s_JudgementLine :> Str(<<"1">>))
  IN  (s_Mania4K :> Mania4K)


\* ManiaSkinConfiguration.POSITION_SCALE_FACTOR = 1.6
POSITION_SCALE_FACTOR == Rat(16, 10)

\* Mutant of parseArrayValue: the scale factor is never applied.
parseArrayValue_NeverScaled(value, applyScaleFactor) ==
  LET values == split(value, ",")
  IN  [i \in 1..Len(values) |->
         LET p == parseFloat(values[i])
         IN  IF Falsy(p) THEN Int2Num(0) ELSE p]

parseArrayValue(value, applyScaleFactor) ==
  LET values == split(value, ",")
  IN  [i \in 1..Len(values) |->
         LET p == parseFloat(values[i])
             parsedValue == IF Falsy(p) THEN Int2Num(0) ELSE p
         IN  IF applyScaleFactor
             THEN NumMul(parsedValue, POSITION_SCALE_FACTOR)
             ELSE parsedValue]

\* Lines 119-127 of parse: the stored value of a key, from its lower-cased
\* value text.
CoerceValue(key, value) ==
  IF key = s_ColumnWidth THEN Arr(parseArrayValue(value, TRUE))
  ELSE IF key = s_HitPosition
       THEN NumSub(Int2Num(480), clamp(parseFloat(value), Int2Num(240), Int2Num(480)))
  ELSE IF key = s_ColumnStart THEN parseFloat(value)
  ELSE IF startsWith(key, s_Colour) THEN Arr(parseArrayValue(value, FALSE))
  ELSE Str(value)

\* configData[section][key] = value, creating the section when it is absent
\* (lines 130-132).  Section names of the model are no property names of
\* Object.prototype, so `in` is membership in the tree's own sections.
SetKey(configData, section, key, value) ==
  LET old == IF section \in DOMAIN configData THEN configData[section] ELSE <<>>
      new == [k \in DOMAIN old \cup {key} |-> IF k = key THEN value ELSE old[k]]
  IN  [s \in DOMAIN configData \cup {section} |->
         IF s = section THEN new ELSE configData[s]]

\* Mutants of RenamedSection: the section is left as it is; the key count is
\* fixed to 4.
RenamedSection_NotRenamed(currentSection, value) == currentSection

RenamedSection_Always4K(currentSection, value) == currentSection \o <<"4", "K">>

\* `${currentSection}${value}K` (line 111)
RenamedSection(currentSection, value) == currentSection \o value \o <<"K">>

\* One iteration of the loop of parse (lines 96-133) on line number i.
\* st.threw: `line.split(':')[1].trim()` raised a TypeError (a line with no
\* colon) and parse was left.  st.log records each write of line 132.
ParseLine(st, line, i) ==
  IF st.threw THEN st
  ELSE IF trim(line) = <<>> \/ startsWith(trim(line), <<"/", "/">>) THEN st
  ELSE IF startsWith(line, <<"[">>) /\ endsWith(line, <<"]">>)
       THEN [st EXCEPT !.currentSection = trim(split(split(line, "[")[2], "]")[1]),
                       !.keysFound = FALSE]
  ELSE LET fields == split(line, ":")
           rename == /\ st.currentSection = s_Mania
                     /\ ~st.keysFound
                     /\ trim(fields[1]) = s_Keys
       IN  IF Len(fields) < 2 THEN [st EXCEPT !.threw = TRUE]
           ELSE LET currentSection ==
                      IF rename
                      THEN RenamedSection(st.currentSection, trim(fields[2]))
                      ELSE st.currentSection
                    key   == trim(fields[1])
                    value == CoerceValue(key, toLowerCase(trim(fields[2])))
                IN  [st EXCEPT
                       !.currentSection = currentSection,
                       !.keysFound = st.keysFound \/ rename,
                       !.configData = SetKey(st.configData, currentSection, key, value),
                       !.log = Append(st.log, [line |-> i, section |-> currentSection,
                                               key |-> key, value |-> value])]

RECURSIVE ParseLines(_, _, _)
ParseLines(st, lines, i) ==
  IF i > Len(lines) THEN st ELSE ParseLines(ParseLine(st, lines[i], i), lines, i + 1)

\* content.split('\n').map(x => x.trim())
LinesOf(content) ==
  LET raw == split(content, "\n") IN [i \in 1..Len(raw) |-> trim(raw[i])]

\* parse(content) run on the object `skin` that DEFAULT_SKIN names at the
\* time of the call: configData is that object itself (line 89), not a copy.
parse(skin, content) ==
  ParseLines([configData |-> skin, currentSection |-> <<>>, keysFound |-> FALSE,
              threw |-> FALSE, log |-> <<>>],
             LinesOf(content), 1)


(***************************************************************************)
(* The descriptor texts given to parse: the lines of Pool, joined by line  *)
(* feeds.  MaxLines bounds the number of lines given to parse over all its *)
(* calls.                                                                  *)
(***************************************************************************)
MaxLines == 4

Pool ==
  { <<"[", "M", "a", "n", "i", "a", "]">>,
    <<"K", "e", "y", "s", ":", " ", "4">>,
    <<" ", "K", "e", "y", "s", " ", ":", " ", "7", ":", "1", "\r">>,
    <<"N", "o", "t", "e", "I", "m", "a", "g", "e", "0", ":", " ", "A">>,
    <<"H", "i", "t", "P", "o", "s", "i", "t", "i", "o", "n", ":", " ", "x">>,
    <<"/", "/", " ", "c">>,
    <<"f", "o", "o">> }

RECURSIVE Descriptor(_)
Descriptor(ls) ==
  IF ls = <<>> THEN <<>>
  ELSE IF Len(ls) = 1 THEN ls[1]
  ELSE ls[1] \o <<"\n">> \o Descriptor(Tail(ls))

VARIABLES
  skin,      \* the object DEFAULT_SKIN names (a module global that parse writes)
  content,   \* the argument of the last call of parse
  outcome,   \* of the last call: "none", "returned" or "threw"
  log,       \* the writes of the last call, in order
  fed        \* the number of lines given to parse so far

pvars == <<skin, content, outcome, log, fed>>

VARIABLES
  scaledHitPosition,  \* this.scaled.HitPosition
  screenHeight,       \* this.app.screen.height
  sprites,            \* the note sprites made by createHitObjects, by identity
  hitObjectSprites,   \* this.hitObjectSprites: the identities, in list order
  clock,              \* this.audio.currentTime * 1000
  currentTime,        \* the reading of the clock by the last updateHitObjects
  playing,            \* audio.play() was called
  awaiting,           \* click handlers waiting in `await`
  pendingFrames,      \* callbacks requestAnimationFrame holds
  clicks,             \* the number of clicks so far
  beatmap,            \* this.beatmap.hitObjects
  initError,          \* the error init threw, "none" when it ran to its end
  onclick,            \* window.onclick is the handler of lines 289-293
  ticks,              \* the parity of the number of calls of updateHitObjects
  processed           \* the notes the last call of updateHitObjects visited, in order

gvars == <<scaledHitPosition, screenHeight, sprites, hitObjectSprites, clock,
           currentTime, playing, awaiting, pendingFrames, clicks, beatmap,
           initError, onclick, ticks, processed>>

VARIABLES
  config     \* the outcome of the last `new ManiaSkinConfiguration(keys)`

cvars == <<config>>

vars == <<pvars, gvars, cvars>>

(***************************************************************************)
(* The parser alone: calls of parse on the module's DEFAULT_SKIN.          *)
(***************************************************************************)
\* No Game is constructed.
GameIdle ==
  /\ scaledHitPosition = NaN
  /\ screenHeight = 0
  /\ sprites = <<>>
  /\ hitObjectSprites = <<>>
  /\ clock = 0
  /\ currentTime = 0
  /\ playing = FALSE
  /\ awaiting = 0
  /\ pendingFrames = 0
  /\ clicks = 0
  /\ beatmap = <<>>
  /\ initError = "none"
  /\ onclick = FALSE
  /\ ticks = 0
  /\ processed = <<>>

\* No ManiaSkinConfiguration is constructed.
ConfigIdle == config = [made |-> FALSE]

ParserInit ==
  /\ skin = DEFAULT_SKIN
  /\ content = <<>>
  /\ outcome = "none"
  /\ log = <<>>
  /\ fed = 0
  /\ GameIdle
  /\ ConfigIdle

\* A call parse(content) with content a text of lines of `pool`.  The tree it
\* returns is the object `skin` itself.
ParseOver(pool) ==
  \E k \in 0..(MaxLines - fed) :
    \E ls \in [1..k -> pool] :
      \E r \in {parse(skin, Descriptor(ls))} :
        /\ skin' = r.configData
        /\ content' = Descriptor(ls)
        /\ outcome' = IF r.threw THEN "threw" ELSE "returned"
        /\ log' = r.log
        /\ fed' = fed + k
        /\ UNCHANGED <<gvars, cvars>>

Parse == ParseOver(Pool)

ParserNext == Parse

SpecParser == ParserInit /\ [][ParserNext]_vars

(***************************************************************************)
(* The parser on single key/value lines with numeric values: HitPosition   *)
(* under, in and over the band 240..480, ColumnWidth and Colour* lists.    *)
(***************************************************************************)
ValueLines ==
  { <<"H", "i", "t", "P", "o", "s", "i", "t", "i", "o", "n", ":", " ", "0">>,
    <<"H", "i", "t", "P", "o", "s", "i", "t", "i", "o", "n", ":", " ", "1", "0", "0">>,
    <<"H", "i", "t", "P", "o", "s", "i", "t", "i", "o", "n", ":", " ", "2", "4", "0">>,
    <<"H", "i", "t", "P", "o", "s", "i", "t", "i", "o", "n", ":", " ", "2", "4", "1">>,
    <<"H", "i", "t", "P", "o", "s", "i", "t", "i", "o", "n", ":", " ", "3", "0", "0">>,
    <<"H", "i", "t", "P", "o", "s", "i", "t", "i", "o", "n", ":", " ", "4", "7", "9">>,
    <<"H", "i", "t", "P", "o", "s", "i", "t", "i", "o", "n", ":", " ", "4", "8", "0">>,
    <<"H", "i", "t", "P", "o", "s", "i", "t", "i", "o", "n", ":", " ", "6", "0", "0">>,
    <<"H", "i", "t", "P", "o", "s", "i", "t", "i", "o", "n", ":", " ", "-", "5">>,
    <<"C", "o", "l", "u", "m", "n", "W", "i", "d", "t", "h", ":", " ", "1", "0", ",", "2", "0", ",", "3", "0">>,
    <<"C", "o", "l", "u", "m", "n", "W", "i", "d", "t", "h", ":", " ", "3", "0", ",", "x", ",", "5">>,
    <<"C", "o", "l", "o", "u", "r", "1", ":", " ", "1", "0", ",", "2", "0", ",", "3", "0">>,
    <<"C", "o", "l", "o", "u", "r", "L", "i", "g", "h", "t", "2", ":", " ", "2", "5", "5", ",", ",", "7">> }

\* A call parse(content) with content one line of `pool`.
ParseLineOf(pool) ==
  /\ fed < MaxLines
  /\ \E l \in pool :
       \E r \in {parse(skin, l)} :
         /\ skin' = r.configData
         /\ content' = l
         /\ outcome' = IF r.threw THEN "threw" ELSE "returned"
         /\ log' = r.log
         /\ fed' = fed + 1
         /\ UNCHANGED <<gvars, cvars>>

ParseValue == ParseLineOf(ValueLines)

ValuesNext == ParseValue

SpecValues == ParserInit /\ [][ValuesNext]_vars

(***************************************************************************)
(* ManiaSkinConfiguration: calls of its constructor with an integer key    *)
(* count.                                                                  *)
(***************************************************************************)
MaxKeys == 60

\* The integer key counts given to the constructor.
KeyCounts == (-MaxKeys)..MaxKeys

\* `new Array(n)` for an integer n throws a RangeError when n is negative.
ArrayThrows(n) == n < 0

\* `new Array(n)`: n empty slots, which read as undefined.
NewArray(n) == [i \in 1..n |-> undefined]

\* `new Array(n).fill(v)`
Filled(n, v) == [i \in 1..n |-> v]

\* DEFAULT_COLUMN_SIZE = 30 * POSITION_SCALE_FACTOR (line 34)
DEFAULT_COLUMN_SIZE == NumMul(Int2Num(30), POSITION_SCALE_FACTOR)

\* DEFAULT_HIT_POSITION = (480 - 402) * POSITION_SCALE_FACTOR (line 36)
DEFAULT_HIT_POSITION == NumMul(Int2Num(480 - 402), POSITION_SCALE_FACTOR)

\* Mutant of ManiaSkinConfiguration: ColumnSpacing is `new Array(keys)`.
ManiaSkinConfiguration_SpacingOfKeys(k) ==
  IF ArrayThrows(k + 1) \/ ArrayThrows(k)
  THEN [made |-> TRUE, keys |-> k, threw |-> TRUE]
  ELSE [made |-> TRUE, keys |-> k, threw |-> FALSE,
        Keys |-> k,
        HitPosition |-> DEFAULT_HIT_POSITION,
        ColumnLineWidth |-> Filled(k + 1, Int2Num(2)),
        ColumnSpacing |-> NewArray(k),
        ColumnWidth |-> Filled(k, DEFAULT_COLUMN_SIZE),
        ExplosionWidth |-> NewArray(k),
        HoldNoteLightWidth |-> NewArray(k)]

\* new ManiaSkinConfiguration(keys) (lines 60-68): the field initialisers,
\* then the five arrays in the order of the constructor; the first
\* `new Array` with a negative length throws and no object is made.
ManiaSkinConfiguration(k) ==
  IF ArrayThrows(k + 1) \/ ArrayThrows(k - 1) \/ ArrayThrows(k)
  THEN [made |-> TRUE, keys |-> k, threw |-> TRUE]
  ELSE [made |-> TRUE, keys |-> k, threw |-> FALSE,
        Keys |-> k,
        HitPosition |-> DEFAULT_HIT_POSITION,
        ColumnLineWidth |-> Filled(k + 1, Int2Num(2)),
        ColumnSpacing |-> NewArray(k - 1),
        ColumnWidth |-> Filled(k, DEFAULT_COLUMN_SIZE),
        ExplosionWidth |-> NewArray(k),
        HoldNoteLightWidth |-> NewArray(k)]

\* A call of the constructor.
Construct ==
  /\ \E k \in KeyCounts : config' = ManiaSkinConfiguration(k)
  /\ UNCHANGED <<pvars, gvars>>

ConfigNext == Construct

SpecConfig == ParserInit /\ [][ConfigNext]_vars

(***************************************************************************)
(* Game: init up to the installation of window.onclick, then clicks, the   *)
(* audio clock and the frames of requestAnimationFrame.                    *)
(***************************************************************************)
\* keys = 4 (main.ts line 186)
keys == 4

\* scrollSpeed = 542 (main.ts line 201)
scrollSpeed == 542

MaxNotes == 2

MaxClicks == 2

\* The clock is sampled at multiples of half the scroll speed, up to
\* MaxClock of them.
MaxClock == 4

ClockStep == scrollSpeed \div 2

Times == {k * ClockStep : k \in 0..MaxClock}

\* The hit objects of the decoded beatmap: startX in osu! pixels, startTime
\* in ms, isHold for hitType === 128.
HitObjects ==
  { [startX |-> 0,   startTime |-> 100,             isHold |-> FALSE],
    [startX |-> 300, startTime |-> scrollSpeed,     isHold |-> FALSE],
    [startX |-> 511, startTime |-> 2 * scrollSpeed, isHold |-> FALSE],
    [startX |-> 128, startTime |-> scrollSpeed,     isHold |-> TRUE] }

Beatmaps == UNION {[1..n -> HitObjects] : n \in 0..MaxNotes}

\* skin.ini texts with a [Mania] block of 4 keys and its ColumnWidth:
\* HitPosition in the band, under it, not a number, and missing.
SkinBlock ==
  <<<<"[", "M", "a", "n", "i", "a", "]">>,
    <<"K", "e", "y", "s", ":", " ", "4">>,
    <<"C", "o", "l", "u", "m", "n", "W", "i", "d", "t", "h", ":", " ", "4", "0", ",", "4", "0", ",", "1", "5", ",", "1", "5">>>>

\* The text with HitPosition in the band.
SkinInBand == Descriptor(Append(SkinBlock, <<"H", "i", "t", "P", "o", "s", "i", "t", "i", "o", "n", ":", " ", "3", "0", "0">>))

SkinTexts ==
  { SkinInBand,
    Descriptor(Append(SkinBlock, <<"H", "i", "t", "P", "o", "s", "i", "t", "i", "o", "n", ":", " ", "1", "0", "0">>)),
    Descriptor(Append(SkinBlock, <<"H", "i", "t", "P", "o", "s", "i", "t", "i", "o", "n", ":", " ", "x">>)),
    Descriptor(SkinBlock) }

\* window.innerHeight and window.devicePixelRatio at init.
WindowHeights == {300, 600}

PixelRatios == {1, 2}

\* keyConfig[name], undefined when the section has no such key.
Get(keyConfig, name) ==
  IF name \in DOMAIN keyConfig THEN keyConfig[name] ELSE undefined

\* Mutant of ColumnOf: rounded to the nearest column.
ColumnOf_Rounded(startX, k) == (startX * k + 256) \div 512

\* Math.floor(hitObject.startX * this.keys / 512) (line 361), for a key
\* count k.
ColumnOf(startX, k) == (startX * k) \div 512

Column(startX) == ColumnOf(startX, keys)

\* preloadSkinTextures (lines 90-115): textureAsUrl gives every file named by
\* a key with 'Image' in it or starting with 'Stage' an entry of
\* preloadedTextures, with a '1x' texture whether the archive holds the file
\* or not (lines 46-57).  The set of these files.
preloadSkinTextures(keyConfig) ==
  { toLowerCase(keyConfig[key].str) :
      key \in {k \in DOMAIN keyConfig :
                 includes(k, <<"I", "m", "a", "g", "e">>) \/ startsWith(k, s_Stage)} }

\* getSkinTexture(file) (lines 73-88) throws `Texture not found` when
\* preloadedTextures has no entry for file: TRUE when it throws.  An entry
\* always holds a '1x' texture, so the second throw is never taken.
getSkinTexture(preloadedTextures, file) ==
  file = undefined \/ file.str \notin preloadedTextures

\* The property name `NoteImage${col}H` or `NoteImage${col}` of line 364;
\* a column above 9 is not written.
NoteImageKey(col, isHold) ==
  s_NoteImage \o <<DigitChars[col + 1]>> \o (IF isHold THEN <<"H">> ELSE <<>>)

\* createColumns (lines 296-319) throws: a texture KeyImage0..KeyImage<keys-1>
\* is not found.
createColumns(keyConfig, preloadedTextures) ==
  \E i \in 0..(keys - 1) :
    getSkinTexture(preloadedTextures,
                   Get(keyConfig, s_KeyImage \o <<DigitChars[i + 1]>>))

\* createStage (lines 321-357) throws: the texture StageBottom or StageRight
\* is not found.
createStage(keyConfig, preloadedTextures) ==
  \/ getSkinTexture(preloadedTextures,
                    Get(keyConfig, s_Stage \o <<"B", "o", "t", "t", "o", "m">>))
  \/ getSkinTexture(preloadedTextures,
                    Get(keyConfig, s_Stage \o <<"R", "i", "g", "h", "t">>))

\* The hit object's texture lookup of line 364 throws.
NoteTextureMissing(hitObject, keyConfig, preloadedTextures) ==
  getSkinTexture(preloadedTextures,
                 Get(keyConfig, NoteImageKey(Column(hitObject.startX), hitObject.isHold)))

\* createHitObjects (lines 359-379): one sprite per hit object, in order, up
\* to the first hit object whose texture lookup throws; the fields
\* updateHitObjects reads, and the column.  ColumnWidth[col] is the sprite's
\* height.  [sprites, threw].
createHitObjects(hitObjects, keyConfig, preloadedTextures) ==
  LET bad == {i \in 1..Len(hitObjects) :
                NoteTextureMissing(hitObjects[i], keyConfig, preloadedTextures)}
      n   == IF bad = {} THEN Len(hitObjects)
             ELSE (CHOOSE i \in bad : \A j \in bad : i <= j) - 1
  IN  [threw   |-> bad # {},
       sprites |->
         [i \in 1..n |->
            LET col    == Column(hitObjects[i].startX)
                height == Get(keyConfig, s_ColumnWidth).arr[col + 1]
            IN  [startTime |-> hitObjects[i].startTime,
                 col       |-> col,
                 height    |-> height,
                 y         |-> NumNeg(height),
                 visible   |-> FALSE,
                 destroyed |-> FALSE]]]

\* init (lines 231-294) with a skin text, a beatmap and a window: parse the
\* skin, take the section `Mania${this.keys}K`, preload its textures, scale
\* the hit position (line 282), create the columns, the stage and the
\* sprites, and install window.onclick.  An error thrown on the way leaves
\* init: what follows the throw is not run.
GameInitOver(texts, beatmaps, heights, ratios) ==
  \E text \in texts :
    \E parsed \in {parse(DEFAULT_SKIN, text)} :
      \E keyConfig \in {parsed.configData[s_Mania \o <<DigitChars[keys + 1], "K">>]} :
        \E preloaded \in {preloadSkinTextures(keyConfig)} :
          \E staged \in {~createColumns(keyConfig, preloaded)
                           /\ ~createStage(keyConfig, preloaded)} :
            \E hitObjects \in beatmaps, h \in heights, r \in ratios :
              \E created \in {IF staged
                              THEN createHitObjects(hitObjects, keyConfig, preloaded)
                              ELSE [threw |-> TRUE, sprites |-> <<>>]} :
                /\ skin = parsed.configData
                /\ content = text
                /\ outcome = "returned"
                /\ log = parsed.log
                /\ fed = Len(LinesOf(text))
                /\ ConfigIdle
                /\ beatmap = hitObjects
                /\ screenHeight = h
                /\ scaledHitPosition =
                     NumSub(Int2Num(h * r),
                            NumMul(ToNumber(Get(keyConfig, s_HitPosition)), Rat(16, 10)))
                /\ sprites = created.sprites
                /\ hitObjectSprites = [i \in 1..Len(created.sprites) |-> i]
                /\ initError = IF created.threw THEN "Texture not found" ELSE "none"
                /\ onclick = ~created.threw
                /\ clock = 0
                /\ currentTime = 0
                /\ playing = FALSE
                /\ awaiting = 0
                /\ pendingFrames = 0
                /\ clicks = 0
                /\ ticks = 0
                /\ processed = <<>>

GameInit == GameInitOver(SkinTexts, Beatmaps, WindowHeights, PixelRatios)

\* Mutant of TimeToHit: the scroll speed is not subtracted.
TimeToHit_NoScrollSpeed(startTime, time) == startTime - time

\* timeToHit (line 388), `time` being the currentTime of line 383
TimeToHit(startTime, time) == startTime - time - scrollSpeed

\* Mutant of NoteY: the hit position is not negated.
NoteY_NotNegated(timeToHit, height, hitPosition) ==
  NumSub(NumMul(NumDiv(Int2Num(timeToHit), Int2Num(scrollSpeed)), hitPosition),
         height)

\* The y of line 394.
NoteY(timeToHit, height, hitPosition) ==
  NumSub(NumMul(NumDiv(Int2Num(timeToHit), Int2Num(scrollSpeed)), NumNeg(hitPosition)),
         height)

\* Mutant of PastBottom: > for >=.
PastBottom_Strict(y, screenBottom) == NumLt(Int2Num(screenBottom), y)

\* `hitObject.y >= screenBottom` (line 396)
PastBottom(y, screenBottom) == NumGe(y, Int2Num(screenBottom))

\* this.hitObjectSprites.splice(i, 1)
Splice(list, i) == SubSeq(list, 1, i - 1) \o SubSeq(list, i + 1, Len(list))

\* Mutant of UpdateLoop: the list is walked from the first index up, the
\* index going on by one also after a removal.
RECURSIVE ForwardLoop(_, _, _)
ForwardLoop(st, j, time) ==
  IF j > Len(st.list) THEN st
  ELSE LET id        == st.list[j]
           hitObject == st.sprites[id]
           timeToHit == TimeToHit(hitObject.startTime, time)
           y         == NoteY(timeToHit, hitObject.height, scaledHitPosition)
           gone      == PastBottom(y, screenHeight)
           moved     == [hitObject EXCEPT !.visible = @ \/ timeToHit < 0, !.y = y,
                                          !.destroyed = gone]
       IN  ForwardLoop([sprites |-> [st.sprites EXCEPT ![id] = moved],
                        list    |-> IF gone THEN Splice(st.list, j) ELSE st.list,
                        visited |-> Append(st.visited, id)],
                       j + 1, time)

UpdateLoop_Forward(st, i, time) == ForwardLoop(st, 1, time)

\* The loop of updateHitObjects (lines 386-400) from index i down to 1, on
\* st = [sprites, list, visited].
RECURSIVE UpdateLoop(_, _, _)
UpdateLoop(st, i, time) ==
  IF i < 1 THEN st
  ELSE LET id        == st.list[i]
           hitObject == st.sprites[id]
           timeToHit == TimeToHit(hitObject.startTime, time)
           visible   == IF timeToHit < 0 /\ ~hitObject.visible
                        THEN TRUE ELSE hitObject.visible
           y         == NoteY(timeToHit, hitObject.height, scaledHitPosition)
           gone      == PastBottom(y, screenHeight)
           moved     == [hitObject EXCEPT !.visible = visible, !.y = y,
                                          !.destroyed = gone]
       IN  UpdateLoop([sprites |-> [st.sprites EXCEPT ![id] = moved],
                       list    |-> IF gone THEN Splice(st.list, i) ELSE st.list,
                       visited |-> Append(st.visited, id)],
                      i - 1, time)

\* Mutant of updateHitObjects: the pass, without requestAnimationFrame.
updateHitObjects_NoReschedule(pending) ==
  \E st \in {UpdateLoop([sprites |-> sprites, list |-> hitObjectSprites,
                          visited |-> <<>>],
                         Len(hitObjectSprites), clock)} :
    /\ sprites' = st.sprites
    /\ hitObjectSprites' = st.list
    /\ processed' = st.visited
    /\ currentTime' = clock
    /\ ticks' = 1 - ticks
    /\ pendingFrames' = pending

\* updateHitObjects (lines 382-403): one pass over the list at the clock's
\* reading, then requestAnimationFrame adds a callback to the `pending` others.
updateHitObjects(pending) ==
  \E st \in {UpdateLoop([sprites |-> sprites, list |-> hitObjectSprites,
                          visited |-> <<>>],
                         Len(hitObjectSprites), clock)} :
    /\ sprites' = st.sprites
    /\ hitObjectSprites' = st.list
    /\ processed' = st.visited
    /\ currentTime' = clock
    /\ ticks' = 1 - ticks
    /\ pendingFrames' = pending + 1

\* window.onclick (lines 289-293) up to its first await: audio.play().
Click ==
  /\ onclick
  /\ clicks < MaxClicks
  /\ clicks' = clicks + 1
  /\ playing' = TRUE
  /\ awaiting' = awaiting + 1
  /\ UNCHANGED <<pvars, cvars, scaledHitPosition, screenHeight, sprites,
                 hitObjectSprites, clock, currentTime, pendingFrames, beatmap,
                 initError, onclick, ticks, processed>>

\* The handler resumes after `await this.video.play()` and calls
\* updateHitObjects (line 292).
ClickResume ==
  /\ awaiting > 0
  /\ awaiting' = awaiting - 1
  /\ updateHitObjects(pendingFrames)
  /\ UNCHANGED <<pvars, cvars, scaledHitPosition, screenHeight, clock, playing,
                 clicks, beatmap, initError, onclick>>

\* A frame: one callback of requestAnimationFrame runs updateHitObjects,
\* which requests the next.
Frame ==
  /\ pendingFrames > 0
  /\ updateHitObjects(pendingFrames - 1)
  /\ UNCHANGED <<pvars, cvars, scaledHitPosition, screenHeight, clock, playing,
                 awaiting, clicks, beatmap, initError, onclick>>

\* The audio plays on: its clock advances.
ClockAdvance ==
  /\ playing
  /\ \E t \in Times : t > clock /\ clock' = t
  /\ UNCHANGED <<pvars, cvars, scaledHitPosition, screenHeight, sprites,
                 hitObjectSprites, currentTime, playing, awaiting, pendingFrames,
                 clicks, beatmap, initError, onclick, ticks, processed>>

GameNext == Click \/ ClickResume \/ Frame \/ ClockAdvance

SpecGame == GameInit /\ [][GameNext]_vars

\* The game on beatmaps of one note, at every x of the osu! playfield, which
\* is 512 wide.
StartXs == 0..511

SingleNotes ==
  {<<[startX |-> x, startTime |-> scrollSpeed, isHold |-> FALSE]>> : x \in StartXs}

SpecColumns ==
  GameInitOver({SkinInBand}, SingleNotes, {600}, {1}) /\ [][GameNext]_vars

\* The browser runs every callback it holds: a frame that can be delivered
\* is delivered.  This is weak fairness of Frame, WF_vars(Frame), with
\* ENABLED <<Frame>>_vars written out: Frame can be taken exactly when a
\* callback is held, and it always changes `ticks`.
\* The window is the larger one, at pixel ratio 1.
SpecGameFair ==
  /\ GameInitOver(SkinTexts, Beatmaps, {600}, {1})
  /\ [][GameNext]_vars
  /\ ([]<>(pendingFrames = 0) \/ []<><<Frame>>_vars)

(***************************************************************************)
(* The descriptor format as the specification reads it, line by line, for  *)
(* the statements about parse below.                                       *)
(***************************************************************************)
TextLines == LinesOf(content)

FirstAt(s, c) ==
  LET hits == {i \in 1..Len(s) : s[i] = c}
  IN  IF hits = {} THEN 0 ELSE CHOOSE i \in hits : \A j \in hits : i <= j

IsSkippedLine(l) == l = <<>> \/ startsWith(l, <<"/", "/">>)

IsHeadingLine(l) == ~IsSkippedLine(l) /\ Head(l) = "[" /\ l[Len(l)] = "]"

HeadingName(l) == trim(SubSeq(l, 2, FirstAt(l, "]") - 1))

IsKeyValueLine(l) == ~IsSkippedLine(l) /\ ~IsHeadingLine(l) /\ FirstAt(l, ":") > 0

\* A line that is neither skipped, nor a heading, nor a key/value line.
IsMalformedLine(l) == ~IsSkippedLine(l) /\ ~IsHeadingLine(l) /\ FirstAt(l, ":") = 0

KeyText(l) == trim(SubSeq(l, 1, FirstAt(l, ":") - 1))

\* The value of a key/value line: the text after its first colon, up to the
\* next colon if there is one.
ValueText(l) ==
  LET rest == SubSeq(l, FirstAt(l, ":") + 1, Len(l))
      j    == FirstAt(rest, ":")
  IN  trim(IF j = 0 THEN rest ELSE SubSeq(rest, 1, j - 1))

\* parse reaches line i: no malformed line comes before it.
Reached(i) == \A j \in 1..(i - 1) : ~IsMalformedLine(TextLines[j])

\* The heading that opens the block of line i (0: none).
BlockStart(i) ==
  LET hs == {h \in 1..(i - 1) : IsHeadingLine(TextLines[h])}
  IN  IF hs = {} THEN 0 ELSE CHOOSE h \in hs : \A g \in hs : g <= h

\* The first Keys line of the [Mania] block of line i, when line i is that
\* line or comes after it (0: there is none).
KeysLineOf(i) ==
  LET h  == BlockStart(i)
      ks == {j \in (h + 1)..i : /\ IsKeyValueLine(TextLines[j])
                                /\ KeyText(TextLines[j]) = s_Keys}
  IN  IF h > 0 /\ HeadingName(TextLines[h]) = s_Mania /\ ks # {}
      THEN CHOOSE j \in ks : \A g \in ks : j <= g
      ELSE 0

InKeysScope(i) == IsKeyValueLine(TextLines[i]) /\ KeysLineOf(i) > 0

KeysValue(i) == ValueText(TextLines[KeysLineOf(i)])

ManiaSection(i) == s_Mania \o KeysValue(i) \o <<"K">>

\* The last write of the last call to section s, key k (0: none).
LastWrite(s, k) ==
  LET ws == {n \in 1..Len(log) : log[n].section = s /\ log[n].key = k}
  IN  IF ws = {} THEN 0 ELSE CHOOSE n \in ws : \A m \in ws : m <= n

Holds(tree, s, k, v) == s \in DOMAIN tree /\ k \in DOMAIN tree[s] /\ tree[s][k] = v

\* C1: after a call of parse, the first Keys line of a [Mania] block and
\* every key/value line after it in the block is stored under Mania<N>K, N the
\* value of that Keys line, and not under Mania; a later Keys line of the
\* block is stored there like any other key.
C1_KeysLineNamesSection ==
  outcome # "none" =>
    \A i \in 1..Len(TextLines) :
      (InKeysScope(i) /\ Reached(i)) =>
        /\ \E n \in 1..Len(log) : log[n].line = i
        /\ \A n \in 1..Len(log) :
             log[n].line = i =>
               /\ log[n].section = ManiaSection(i)
               /\ log[n].section # s_Mania
               /\ log[n].key = KeyText(TextLines[i])
               /\ Holds(skin, ManiaSection(i), log[n].key,
                        log[LastWrite(ManiaSection(i), log[n].key)].value)

\* C1's case: parse returned from a text whose [Mania] block holds a second
\* Keys line after its first.
C1_Witness ==
  /\ outcome = "returned"
  /\ \E i \in 1..Len(TextLines) :
       /\ InKeysScope(i)
       /\ KeysLineOf(i) < i
       /\ KeyText(TextLines[i]) = s_Keys
       /\ ManiaSection(i) \in DOMAIN skin

\* C2: the tree parse returns for a text is the tree a first call of parse
\* returns for it, whatever was parsed before.
C2_ParseIsPure ==
  outcome = "returned" => skin = parse(DEFAULT_SKIN, content).configData

\* C3: in the tree parse returns, a section the text wrote nothing to holds
\* exactly its compiled-in defaults, and a default key the text did not
\* assign holds its default value.
C3_DefaultsSurvive ==
  outcome = "returned" =>
    /\ \A s \in DOMAIN skin :
         (\A n \in 1..Len(log) : log[n].section # s) =>
           s \in DOMAIN DEFAULT_SKIN /\ skin[s] = DEFAULT_SKIN[s]
    /\ \A s \in DOMAIN DEFAULT_SKIN :
         \A k \in DOMAIN DEFAULT_SKIN[s] :
           LastWrite(s, k) = 0 => Holds(skin, s, k, DEFAULT_SKIN[s][k])

\* C4: the lines after the Keys line of a [Mania] block are written to that
\* block's section only, and what a section Mania<N>K holds for a key written
\* by a block with Keys N is the last value a block with Keys N wrote: a block
\* with another Keys value changes none of it.
C4_BlocksIndependent ==
  outcome # "none" =>
    \A i, j \in 1..Len(TextLines) :
      ( /\ BlockStart(i) < BlockStart(j)
        /\ InKeysScope(i) /\ InKeysScope(j) /\ Reached(j)
        /\ KeysValue(i) # KeysValue(j) ) =>
        /\ \E n \in 1..Len(log) : log[n].line = j
        /\ \A n \in 1..Len(log) :
             log[n].line = j =>
               log[n].section = ManiaSection(j) /\ log[n].section # ManiaSection(i)
        /\ \A n \in 1..Len(log) :
             log[n].line = i =>
               LET m == LastWrite(log[n].section, log[n].key)
               IN  /\ KeysValue(log[m].line) = KeysValue(i)
                   /\ Holds(skin, ManiaSection(i), log[n].key, log[m].value)

\* C4's case: parse returned from a text with two [Mania] blocks of different
\* Keys values, both sections being in the tree.
C4_Witness ==
  /\ outcome = "returned"
  /\ \E i, j \in 1..Len(TextLines) :
       /\ BlockStart(i) < BlockStart(j)
       /\ InKeysScope(i) /\ InKeysScope(j)
       /\ KeysValue(i) # KeysValue(j)
       /\ ManiaSection(i) \in DOMAIN skin
       /\ ManiaSection(j) \in DOMAIN skin

\* A token that reads as a number: an optional sign and digits only.
IsNumberToken(tok) ==
  LET t == trim(tok)
      u == IF t # <<>> /\ Head(t) \in {"-", "+"} THEN Tail(t) ELSE t
  IN  u # <<>> /\ \A i \in 1..Len(u) : IndexIn(u[i], DigitChars) > 0

\* C5: a value token that is not a number is stored as 0 under ColumnWidth
\* and Colour* (per token) and ColumnStart, and as 480 - clamp(0, 240, 480)
\* = 240 under HitPosition; parse returns and stores no NaN.
C5_BadNumberIsZero ==
  outcome # "none" =>
    \A n \in 1..Len(log) :
      LET key  == log[n].key
          text == ValueText(TextLines[log[n].line])
          toks == split(text, ",")
      IN  /\ (key = s_ColumnWidth \/ startsWith(key, s_Colour)) =>
               \A t \in 1..Len(toks) :
                 ~IsNumberToken(toks[t]) => log[n].value.arr[t] = Int2Num(0)
          /\ (key = s_HitPosition /\ ~IsNumberToken(text)) =>
               log[n].value = Int2Num(240)
          /\ (key = s_ColumnStart /\ ~IsNumberToken(text)) =>
               log[n].value = Int2Num(0)
          /\ log[n].value # NaN
(***************************************************************************)
(* Statements about the scroll loop.  After a call of updateHitObjects     *)
(* pendingFrames > 0 for good, and currentTime is the clock it read.       *)
(***************************************************************************)
InList(id) == \E i \in 1..Len(hitObjectSprites) : hitObjectSprites[i] = id

\* A step that runs updateHitObjects: neither a click nor the clock.
TickStep == clicks' = clicks /\ clock' = clock

\* C6: from one call of updateHitObjects to the next at a later clock
\* reading, the y of a note of the list does not decrease, and a note that
\* was removed is not written again.
C6_YNeverDecreases ==
  [][ /\ (TickStep /\ pendingFrames > 0 /\ clock > currentTime) =>
           \A i \in 1..Len(hitObjectSprites) :
             NumGe(sprites'[hitObjectSprites[i]].y, sprites[hitObjectSprites[i]].y)
      /\ \A id \in DOMAIN sprites :
           sprites[id].destroyed => sprites'[id] = sprites[id] ]_vars

\* C7: a note of the list is visible exactly when a call of updateHitObjects
\* has found startTime - currentTime - scrollSpeed negative; the clock never
\* goes back, so that is the case exactly when the last call found it so.
C7_VisibleIffDue ==
  \A i \in 1..Len(hitObjectSprites) :
    LET hitObject == sprites[hitObjectSprites[i]]
    IN  hitObject.visible <=>
          (pendingFrames > 0 /\ hitObject.startTime - currentTime - scrollSpeed < 0)

\* C7's case: after a call of updateHitObjects at a clock reading above 0,
\* one note of the list is visible and another is not yet.
C7_Witness ==
  /\ pendingFrames > 0
  /\ currentTime > 0
  /\ \E i, j \in 1..Len(hitObjectSprites) :
       /\ sprites[hitObjectSprites[i]].visible
       /\ ~sprites[hitObjectSprites[j]].visible

\* C8: a note is removed from the list and destroyed in the very call of
\* updateHitObjects that computes a y >= screenHeight for it: after a call, the
\* notes of the list are those whose y is not >= screenHeight, and they are
\* the notes not destroyed.
C8_RemovedAtBottom ==
  \A id \in DOMAIN sprites :
    /\ InList(id) <=> ~sprites[id].destroyed
    /\ pendingFrames > 0 =>
         /\ NumGe(sprites[id].y, Int2Num(screenHeight)) => ~InList(id)
         /\ NumLt(sprites[id].y, Int2Num(screenHeight)) => InList(id)
         /\ ~InList(id) => NumGe(sprites[id].y, Int2Num(screenHeight))

\* C8's case: one note was removed with its y exactly at screenHeight while
\* another, above the bottom, is still in the list.
C8_Witness ==
  /\ pendingFrames > 0
  /\ \E id \in DOMAIN sprites :
       ~InList(id) /\ sprites[id].destroyed /\ sprites[id].y = Int2Num(screenHeight)
  /\ \E id \in DOMAIN sprites :
       InList(id) /\ NumLt(sprites[id].y, Int2Num(screenHeight))

\* C9 as stated: after a call that found timeToHit = 0 for a note, the note's
\* bottom edge y + height is the hit position; after one that found
\* timeToHit = scrollSpeed, the note is at the spawn edge y = -height.
C9_BottomAtHitLineAtZero ==
  pendingFrames > 0 =>
    \A i \in 1..Len(hitObjectSprites) :
      LET hitObject == sprites[hitObjectSprites[i]]
          timeToHit == hitObject.startTime - currentTime - scrollSpeed
      IN  /\ timeToHit = 0 =>
               hitObject.y = NumSub(scaledHitPosition, hitObject.height)
          /\ timeToHit = scrollSpeed => hitObject.y = NumNeg(hitObject.height)

\* C9 amended: the note is at the spawn edge, y = -height, at timeToHit = 0;
\* its bottom edge is at the hit position at timeToHit = -scrollSpeed; it is
\* one hit position above the spawn edge at timeToHit = scrollSpeed; and y is
\* NaN whenever the hit position is.
C9_LinearInTimeToHit ==
  pendingFrames > 0 =>
    \A i \in 1..Len(hitObjectSprites) :
      LET hitObject == sprites[hitObjectSprites[i]]
          timeToHit == hitObject.startTime - currentTime - scrollSpeed
      IN  IF IsNaN(scaledHitPosition) THEN IsNaN(hitObject.y)
          ELSE /\ timeToHit = 0 => hitObject.y = NumNeg(hitObject.height)
               /\ timeToHit = -scrollSpeed =>
                    hitObject.y = NumSub(scaledHitPosition, hitObject.height)
               /\ timeToHit = scrollSpeed =>
                    hitObject.y = NumSub(NumNeg(scaledHitPosition), hitObject.height)

\* C9's case: a call of updateHitObjects found timeToHit = 0 for one note of
\* the list and -scrollSpeed for another, the hit position being a number
\* other than 0.
C9_Witness ==
  /\ pendingFrames > 0
  /\ ~IsNaN(scaledHitPosition)
  /\ scaledHitPosition # Int2Num(0)
  /\ \E i, j \in 1..Len(hitObjectSprites) :
       /\ sprites[hitObjectSprites[i]].startTime - currentTime - scrollSpeed = 0
       /\ sprites[hitObjectSprites[j]].startTime - currentTime - scrollSpeed = -scrollSpeed

\* C10 as stated: after a call of updateHitObjects that read the clock at 0,
\* no note is visible.
C10_NoneVisibleAtZero ==
  (pendingFrames > 0 /\ currentTime = 0) =>
    \A i \in 1..Len(hitObjectSprites) : ~sprites[hitObjectSprites[i]].visible

\* C10 amended: after a call of updateHitObjects that read the clock at 0,
\* the visible notes are those with startTime < scrollSpeed.
C10_VisibleAtZeroIffEarly ==
  (pendingFrames > 0 /\ currentTime = 0) =>
    \A i \in 1..Len(hitObjectSprites) :
      sprites[hitObjectSprites[i]].visible <=>
        sprites[hitObjectSprites[i]].startTime < scrollSpeed

\* C10's case: a call at clock 0 with a note due before scrollSpeed, now
\* visible, and one due at scrollSpeed or later, not visible.
C10_Witness ==
  /\ pendingFrames > 0
  /\ currentTime = 0
  /\ \E i, j \in 1..Len(hitObjectSprites) :
       /\ sprites[hitObjectSprites[i]].startTime < scrollSpeed
       /\ sprites[hitObjectSprites[i]].visible
       /\ sprites[hitObjectSprites[j]].startTime >= scrollSpeed
       /\ ~sprites[hitObjectSprites[j]].visible

(***************************************************************************)
(* Statements about init and the textures.                                 *)
(***************************************************************************)
\* The hit object i of the beatmap has its sprite: sprites are made in the
\* beatmap's order, so it is the sprite i.
HasSprite(i) ==
  /\ i \in DOMAIN sprites
  /\ sprites[i].startTime = beatmap[i].startTime
  /\ sprites[i].col = Column(beatmap[i].startX)

\* C11: when a texture lookup of init has failed, the hit objects whose
\* texture is found have their sprites all the same, and window.onclick is
\* installed, so that a click can start the frame loop.
C11_MissingTextureDoesNotHalt ==
  initError # "none" =>
    /\ onclick
    /\ \A i \in 1..Len(beatmap) :
         ~NoteTextureMissing(beatmap[i], skin[s_Mania4K],
                             preloadSkinTextures(skin[s_Mania4K]))
           => HasSprite(i)

(***************************************************************************)
(* Statements about the frame loop.  A step that changes `ticks` is a call *)
(* of updateHitObjects.                                                    *)
(***************************************************************************)
\* C12: every call of updateHitObjects leaves exactly one more callback with
\* requestAnimationFrame than the callbacks not yet run (a frame takes its own
\* callback away and puts one back; the call of a click handler adds one),
\* whatever the list holds, so a started loop is never without a callback;
\* and once a callback is held, updateHitObjects is called again and again
\* (its call count changes parity for ever).
C12_TickReschedules ==
  /\ [][ /\ ticks' # ticks =>
              /\ pendingFrames' = pendingFrames + (awaiting - awaiting')
              /\ pendingFrames' >= 1
         /\ pendingFrames > 0 => pendingFrames' > 0 ]_vars
  /\ (pendingFrames > 0 /\ ticks = 0) ~> (ticks = 1)
  /\ (pendingFrames > 0 /\ ticks = 1) ~> (ticks = 0)

\* C12's case: a call of updateHitObjects has run over an empty list, every
\* note made being disposed, and a callback is held.
C12_Witness ==
  /\ pendingFrames > 0
  /\ Len(sprites) > 0
  /\ \A id \in DOMAIN sprites : sprites[id].destroyed
  /\ hitObjectSprites = <<>>
  /\ processed = <<>>

(***************************************************************************)
(* Statements about ManiaSkinConfiguration.                                *)
(***************************************************************************)
\* C13: the constructor throws exactly when the key count is below 1, and
\* the object it makes otherwise has Keys widths and Keys - 1 spacings.
C13_FailsIffNoKeys ==
  config.made =>
    /\ config.threw <=> config.keys < 1
    /\ ~config.threw =>
         /\ config.Keys = config.keys
         /\ Len(config.ColumnWidth) = config.Keys
         /\ Len(config.ColumnSpacing) = config.Keys - 1

\* C13's case: the constructor was called with 0 keys and threw.
C13_Witness == config.made /\ config.keys = 0 /\ config.threw

(***************************************************************************)
(* Statements about the values parse stores.                               *)
(***************************************************************************)
\* The number a token reads as.
TokenValue(tok) == LET p == parseFloat(tok) IN IF Falsy(p) THEN Int2Num(0) ELSE p

\* C14: for a HitPosition line whose value is a number v, parse stores
\* 480 - min(max(v, 240), 480): 240 for v <= 240, 0 for v >= 480, 480 - v
\* between, so a number of 0..240; 300 gives 180.
C14_HitPositionClamped ==
  outcome # "none" =>
    \A n \in 1..Len(log) :
      LET text == ValueText(TextLines[log[n].line])
          v    == parseFloat(text)
      IN  (log[n].key = s_HitPosition /\ IsNumberToken(text)) =>
            /\ log[n].value =
                 (IF NumGe(Int2Num(240), v) THEN Int2Num(240)
                  ELSE IF NumGe(v, Int2Num(480)) THEN Int2Num(0)
                  ELSE NumSub(Int2Num(480), v))
            /\ NumGe(log[n].value, Int2Num(0))
            /\ NumGe(Int2Num(240), log[n].value)
            /\ text = <<"3", "0", "0">> => log[n].value = Int2Num(180)
            /\ Holds(skin, log[n].section, s_HitPosition, log[n].value)

\* C14's case: parse returned from a HitPosition line with a number above
\* 480 and stored 0.
C14_Witness ==
  /\ outcome = "returned"
  /\ \E n \in 1..Len(log) :
       /\ log[n].key = s_HitPosition
       /\ IsNumberToken(ValueText(TextLines[log[n].line]))
       /\ NumLt(Int2Num(480), parseFloat(ValueText(TextLines[log[n].line])))
       /\ log[n].value = Int2Num(0)

\* C16: a ColumnWidth line stores one number per comma-separated token, in
\* order, each the token's value times 1.6; a line of a key starting with
\* Colour stores the tokens' values themselves; "10,20,30" gives 16, 32, 48
\* and 10, 20, 30.
C16_ArrayPerToken ==
  outcome # "none" =>
    \A n \in 1..Len(log) :
      LET key    == log[n].key
          text   == ValueText(TextLines[log[n].line])
          toks   == split(text, ",")
          scaled == key = s_ColumnWidth
      IN  (scaled \/ startsWith(key, s_Colour)) =>
            /\ DOMAIN log[n].value = {"arr"}
            /\ Len(log[n].value.arr) = Len(toks)
            /\ \A t \in 1..Len(toks) :
                 log[n].value.arr[t] =
                   (IF scaled THEN NumMul(TokenValue(toks[t]), Rat(16, 10))
                    ELSE TokenValue(toks[t]))
            /\ text = <<"1", "0", ",", "2", "0", ",", "3", "0">> =>
                 log[n].value.arr =
                   (IF scaled THEN <<Int2Num(16), Int2Num(32), Int2Num(48)>>
                    ELSE <<Int2Num(10), Int2Num(20), Int2Num(30)>>)

\* C16's case: after calls of parse, the tree holds 16, 32, 48 for
\* ColumnWidth and 10, 20, 30 for Colour1, both from "10,20,30".
C16_Witness ==
  /\ outcome = "returned"
  /\ \E s \in DOMAIN skin :
       /\ Holds(skin, s, s_ColumnWidth, Arr(<<Int2Num(16), Int2Num(32), Int2Num(48)>>))
       /\ Holds(skin, s, s_Colour \o <<"1">>, Arr(<<Int2Num(10), Int2Num(20), Int2Num(30)>>))

(***************************************************************************)
(* Statements about the columns.                                           *)
(***************************************************************************)
\* C15: for a hit object with startX in 0..511, the column is
\* floor(startX * Keys / 512) and lies in 0..Keys-1 for every key count
\* Keys >= 1; with the 4 keys of Game, 0 gives 0, 128 gives 1 and 511 gives 3,
\* the texture and width lookups of createHitObjects are inside the columns
\* and the sprite is made.
C15_ColumnInRange ==
  \A i \in 1..Len(beatmap) :
    LET startX == beatmap[i].startX
    IN  startX \in 0..511 =>
          /\ \A k \in 1..MaxKeys :
               /\ ColumnOf(startX, k) \in 0..(k - 1)
               /\ ColumnOf(startX, k) * 512 <= startX * k
               /\ startX * k < (ColumnOf(startX, k) + 1) * 512
          /\ startX = 0 => ColumnOf(startX, 4) = 0
          /\ startX = 128 => ColumnOf(startX, 4) = 1
          /\ startX = 511 => ColumnOf(startX, 4) = 3
          /\ (~beatmap[i].isHold /\ \A j \in 1..(i - 1) : HasSprite(j)) =>
               /\ HasSprite(i)
               /\ sprites[i].col = ColumnOf(startX, keys)
               /\ sprites[i].col \in 0..(keys - 1)

\* C15's case: init made the sprite of a note at startX 511, in column 3.
C15_Witness ==
  /\ Len(beatmap) = 1
  /\ beatmap[1].startX = 511
  /\ HasSprite(1)
  /\ sprites[1].col = 3

(***************************************************************************)
(* Statements about one pass of updateHitObjects.                          *)
(***************************************************************************)
\* The list, last to first.
Reversed(list) == [i \in 1..Len(list) |-> list[Len(list) + 1 - i]]

\* C17: a call of updateHitObjects visits the notes that are in the list
\* when it starts from the last index to the first, each once, whatever it
\* removes on the way; each has its y recomputed for the clock's reading and
\* is in the list afterwards exactly when that y is not past the bottom.
C17_EachNoteOncePerTick ==
  [][ ticks' # ticks =>
        /\ processed' = Reversed(hitObjectSprites)
        /\ \A i \in 1..Len(hitObjectSprites) :
             LET id == hitObjectSprites[i]
                 y  == NoteY(TimeToHit(sprites[id].startTime, clock),
                             sprites[id].height, scaledHitPosition)
             IN  /\ sprites'[id].y = y
                 /\ sprites'[id].destroyed = NumGe(y, Int2Num(screenHeight))
                 /\ (\E j \in 1..Len(hitObjectSprites') : hitObjectSprites'[j] = id)
                      <=> ~NumGe(y, Int2Num(screenHeight)) ]_vars

\* C17's case: a call visited two notes and removed both.
C17_Witness ==
  /\ Len(processed) = 2
  /\ hitObjectSprites = <<>>
  /\ \A id \in DOMAIN sprites : sprites[id].destroyed

\* C18: at most one callback of updateHitObjects is held by
\* requestAnimationFrame at any time.
C18_OneCallbackPending == pendingFrames <= 1

(***************************************************************************)
(* Statements about the split of a key/value line.                         *)
(***************************************************************************)
\* C19: a key/value line is stored under the trimmed text before its first
\* colon, with the value made from the whole trimmed text after that colon,
\* further colons included; the section named by a Keys line is made from
\* that whole text too.
C19_SplitOnFirstColon ==
  outcome # "none" =>
    \A n \in 1..Len(log) :
      LET l    == TextLines[log[n].line]
          rest == trim(SubSeq(l, FirstAt(l, ":") + 1, Len(l)))
      IN  /\ log[n].key = KeyText(l)
          /\ log[n].value = CoerceValue(KeyText(l), toLowerCase(rest))
          /\ (InKeysScope(log[n].line) /\ KeysLineOf(log[n].line) = log[n].line) =>
               log[n].section = s_Mania \o rest \o <<"K">>

\* C20: after a call of updateHitObjects that read the clock at a note's
\* startTime, the bottom edge y + height of that note, if it is still in the
\* list, is the hit position: y is a number and equals hit position - height.
C20_BottomAtHitLineAtStartTime ==
  pendingFrames > 0 =>
    \A i \in 1..Len(hitObjectSprites) :
      LET hitObject == sprites[hitObjectSprites[i]]
      IN  currentTime = hitObject.startTime =>
            /\ ~IsNaN(hitObject.y)
            /\ hitObject.y = NumSub(scaledHitPosition, hitObject.height)
=============================================================================
